---- MODULE Spec2Model ----
(***************************************************************************)
(* LocalGithubRepositoryReader (loader_hub/local_github_repo/base.py):     *)
(* load_data walks a local directory tree with os.walk, filters            *)
(* directories and file extensions, and turns each remaining file into     *)
(* Documents through the extraction registry and/or a raw UTF-8 decode.    *)
(*                                                                         *)
(* Paths are sequences of one-character strings, file contents are         *)
(* sequences of bytes (0..255), texts are sequences of code points.        *)
(* Optional values (Python's None) are None == <<>> and Some(x) == <<x>>.  *)
(***************************************************************************)
EXTENDS Integers, Sequences, FiniteSets, TLC

\* ------------------------------------------------------------------ bounds
\* Entries (directories and files) below the root, segments an extractor
\* returns, characters of a path handed to get_file_extension.
MaxEntries == 3
MaxSegs == 2
MaxPathLen == 4

\* ----------------------------------------------------------------- options
None == <<>>
Some(x) == <<x>>
IsNone(o) == o = <<>>
Val(o) == o[1]

\* ------------------------------------------------------------------- paths
Sep == "/"
ExtSep == "."

\* str.rfind, 1-based, 0 when the character is absent
RECURSIVE RFindFrom(_, _, _)
RFindFrom(p, c, i) ==
  IF i = 0 THEN 0 ELSE IF p[i] = c THEN i ELSE RFindFrom(p, c, i - 1)
RFind(p, c) == RFindFrom(p, c, Len(p))

\* os.path.splitext: the extension starts at the last dot of the last
\* component, unless that component has only dots before it
splitext(p) ==
  LET sepIndex == RFind(p, Sep)
      dotIndex == RFind(p, ExtSep)
  IN  IF /\ dotIndex > sepIndex
         /\ \E k \in (sepIndex + 1)..(dotIndex - 1) : p[k] # ExtSep
      THEN <<SubSeq(p, 1, dotIndex - 1), SubSeq(p, dotIndex, Len(p))>>
      ELSE <<p, <<>>>>

\* str.lower on the characters the model uses
LowerChar(c) ==
  CASE c = "B" -> "b"
    [] c = "P" -> "p"
    [] c = "D" -> "d"
    [] c = "F" -> "f"
    [] c = "R" -> "r"
    [] OTHER -> c

lower(s) == [i \in 1..Len(s) |-> LowerChar(s[i])]

\* f".{os.path.splitext(filename)[1][1:].lower()}"
get_file_extension(filename) ==
  LET ext == splitext(filename)[2]
  IN  <<ExtSep>> \o lower(SubSeq(ext, 2, Len(ext)))

\* os.path.join(a, b) for a relative b and a non-empty a without trailing sep
join(a, b) == a \o <<Sep>> \o b

\* os.path.relpath(path, start) for a path at or below start
relpath(path, start) ==
  IF path = start THEN <<".">> ELSE SubSeq(path, Len(start) + 2, Len(path))

\* os.path.basename
basename(p) == SubSeq(p, RFind(p, Sep) + 1, Len(p))

\* ---------------------------------------------------------------- decoding
\* bytes.decode("utf-8") for one- and two-byte sequences; every other lead
\* byte the model uses (a continuation byte, 0xFF) is invalid.
\* Some(code points) or None for UnicodeDecodeError.
RECURSIVE Utf8Decode(_)
Utf8Decode(bs) ==
  IF bs = <<>> THEN Some(<<>>)
  ELSE LET b == Head(bs)
       IN  IF b < 128
           THEN LET r == Utf8Decode(Tail(bs))
                IN  IF IsNone(r) THEN None ELSE Some(<<b>> \o Val(r))
           ELSE IF /\ b >= 194 /\ b <= 223
                   /\ Len(bs) >= 2 /\ bs[2] >= 128 /\ bs[2] <= 191
                THEN LET r == Utf8Decode(SubSeq(bs, 3, Len(bs)))
                     IN  IF IsNone(r) THEN None
                         ELSE Some(<<(b - 192) * 64 + (bs[2] - 128)>> \o Val(r))
                ELSE None

\* "\n\n".join(parsed_file)
RECURSIVE JoinSegments(_)
JoinSegments(segs) ==
  IF segs = <<>> THEN <<>>
  ELSE IF Len(segs) = 1 THEN segs[1]
  ELSE segs[1] \o <<10, 10>> \o JoinSegments(Tail(segs))


\* ------------------------------------------------------------------ inputs
\* local_repo_path "r.g"; directories named "s" and "n.d"; files named
\* "m.py", "B.PDF" and "R" (no extension); the extensions an ignore list holds
RepoPath == <<"r", ".", "g">>
SrcDir == <<"s">>
DotDir == <<"n", ".", "d">>
DirNames == {SrcDir, DotDir}

MainPy == <<"m", ".", "p", "y">>
BPdf == <<"B", ".", "P", "D", "F">>
Readme == <<"R">>

DotPy == <<".", "p", "y">>
DotPdf == <<".", "p", "d", "f">>
Empty == <<>>

\* "hé" in UTF-8, a lead byte followed by "(", no bytes
TextBytes == <<104, 195, 169>>
BinaryBytes == <<195, 40>>
NoBytes == <<>>

FileKinds ==
  { [name |-> MainPy, content |-> TextBytes],
    [name |-> BPdf, content |-> TextBytes],
    [name |-> BPdf, content |-> BinaryBytes],
    [name |-> Readme, content |-> NoBytes] }

\* the keys of DEFAULT_FILE_EXTRACTOR that a file name of the model can hit
Registry == {DotPdf}

\* DEFAULT_FILE_EXTRACTOR.get(file_extension)
Extractor(file_extension) ==
  IF file_extension \in Registry THEN Some(file_extension) ELSE None

\* what parser.parse_file may return: up to MaxSegs text segments
SegText == <<97>>
SegChoices == UNION {[1..n -> {SegText}] : n \in 0..MaxSegs}

\* directory trees: sets of directory paths (sequences of names) below the
\* root <<>>, closed under parent, with n directories below the root
Parent(d) == SubSeq(d, 1, Len(d) - 1)
RECURSIVE TreesOfSize(_)
TreesOfSize(n) ==
  IF n = 0 THEN {{<<>>}}
  ELSE { T \cup {Append(d, nm)} :
           <<T, d, nm>> \in
             { x \in TreesOfSize(n - 1) \X (UNION TreesOfSize(n - 1)) \X DirNames :
                 x[2] \in x[1] /\ Append(x[2], x[3]) \notin x[1] } }

\* the sets of n files in the directories of T: <<directory, kind>>, no two
\* with the same name in one directory
RECURSIVE FileSetsOfSize(_, _)
FileSetsOfSize(T, n) ==
  IF n = 0 THEN {{}}
  ELSE { F \cup {f} :
           <<F, f>> \in
             { x \in FileSetsOfSize(T, n - 1) \X (T \X FileKinds) :
                 \A g \in x[1] : ~(g[1] = x[2][1] /\ g[2].name = x[2][2].name) } }

IgnoreExtensionChoices == {None, Some({DotPy, Empty})}
IgnoreDirectoryChoices == {None, Some({DotDir})}

\* the path os.walk reports for a directory: top joined with each name
RECURSIVE DirStr(_)
DirStr(d) == IF d = <<>> THEN RepoPath ELSE join(DirStr(Parent(d)), d[Len(d)])

\* a directory and a file of the tree, with the paths os.walk and
\* os.path.join spell for them
DirEntry(d) == [parts |-> d, path |-> DirStr(d)]
FileEntry(d, kind) ==
  [parts |-> d, dir |-> DirStr(d), name |-> kind.name, content |-> kind.content,
   path |-> join(DirStr(d), kind.name)]

\* every enumeration order of a finite set
Orderings(S) ==
  { s \in [1..Cardinality(S) -> S] : \A i, j \in 1..Cardinality(S) : s[i] = s[j] => i = j }

\* ------------------------------------------------------------------- state
VARIABLES
  self,          \* the reader's configuration (__init__)
  fs,            \* the directory tree on disk: [dirs, files]
  pc,            \* position in load_data / _parse_supported_file
  stack,         \* os.walk: directories still to scan
  root, dirs, files,   \* the triple os.walk yielded; files still to iterate
  file_path, rel_path, file_content,
  file_extension, parsed_file,
  tmpfiles,      \* temporary files that exist: [name, content]
  tmpcount,      \* temporary names handed out so far
  documents,     \* the list load_data builds
  via,           \* history: the path ("parse" / "raw") that built documents[i]
  opened,        \* history: file paths opened for reading
  listed,        \* history: directories os.walk scanned
  skipped,       \* history: directories whose scan failed
  failed,        \* history: the parse errors logged, <<rel path, exception>>
  error          \* the exception load_data ended with, if any

vars ==
  << self, fs, pc, stack, root, dirs, files, file_path, rel_path, file_content,
     file_extension, parsed_file, tmpfiles, tmpcount, documents, via, opened,
     listed, skipped, failed, error >>

Document(text, doc_id, path, name) ==
  [text |-> text, doc_id |-> doc_id,
   extra_info |-> [file_path |-> path, file_name |-> name]]

Idle ==
  /\ stack = <<RepoPath>>
  /\ root = <<>> /\ dirs = <<>> /\ files = <<>>
  /\ file_path = <<>> /\ rel_path = <<>> /\ file_content = <<>>
  /\ file_extension = <<>> /\ parsed_file = None
  /\ tmpfiles = {} /\ tmpcount = 0
  /\ documents = <<>> /\ via = <<>>
  /\ opened = {} /\ listed = {} /\ skipped = {} /\ failed = {}
  /\ error = None

Init ==
  /\ \E up \in BOOLEAN, ie \in IgnoreExtensionChoices, id \in IgnoreDirectoryChoices :
       self = [use_parser |-> up, ignore_file_extensions |-> ie,
               ignore_directories |-> id]
  /\ \E nd \in 0..MaxEntries : \E nf \in 0..(MaxEntries - nd) :
       \E T \in TreesOfSize(nd) : \E F \in FileSetsOfSize(T, nf) :
         fs = [dirs |-> {DirEntry(d) : d \in T},
               files |-> {FileEntry(x[1], x[2]) : x \in F}]
  /\ pc = "walk"
  /\ Idle

\* ----------------------------------------------------------------- os.walk
SubdirNames(top) ==
  {nm \in DirNames : \E e \in fs.dirs : e.path = join(top, nm)}
FileNamesIn(top) == {f.name : f \in {g \in fs.files : g.dir = top}}
ContentOf(path) == (CHOOSE f \in fs.files : f.path = path).content

\* variant: the filtered list is bound to a new name, os.walk's list is
\* left as it was
PruneDirsRebound(ds, ignore_directories) == ds

\* dirs[:] = [d for d in dirs if d not in self._ignore_directories]
PruneDirs(ds, ignore_directories) ==
  IF IsNone(ignore_directories) THEN ds
  ELSE SelectSeq(ds, LAMBDA d : d \notin Val(ignore_directories))

\* variant: the walk is given an onerror that raises
ScandirErrorRaised == [pc |-> "raised", error |-> Some("scandir")]

\* os.walk: except OSError as error: if onerror is not None: onerror(error);
\* return.  load_data passes no onerror, so the walk just goes on.
ScandirError == [pc |-> "walk", error |-> None]

\* os.scandir(top) fails (top is missing or unreadable)
WalkSkip ==
  /\ pc = "walk" /\ stack # <<>>
  /\ stack' = Tail(stack)
  /\ skipped' = skipped \cup {Head(stack)}
  /\ pc' = ScandirError.pc
  /\ error' = ScandirError.error
  /\ UNCHANGED << self, fs, root, dirs, files, file_path, rel_path,
                  file_content, file_extension, parsed_file, tmpfiles, tmpcount,
                  documents, via, opened, listed, failed >>

\* os.walk yields (root, dirs, files); the loop body prunes dirs in place
WalkYield ==
  /\ pc = "walk" /\ stack # <<>>
  /\ LET top == Head(stack)
     IN  /\ \E ds \in Orderings(SubdirNames(top)) :
               dirs' = PruneDirs(ds, self.ignore_directories)
         /\ \E fl \in Orderings(FileNamesIn(top)) : files' = fl
         /\ root' = top
         /\ listed' = listed \cup {top}
  /\ stack' = Tail(stack)
  /\ pc' = "files"
  /\ UNCHANGED << self, fs, file_path, rel_path, file_content, file_extension,
                  parsed_file, tmpfiles, tmpcount, documents, via, opened,
                  skipped, failed, error >>

\* the file loop is over: os.walk goes down into what is left of dirs
WalkDescend ==
  /\ pc = "files" /\ files = <<>>
  /\ stack' = [i \in 1..Len(dirs) |-> join(root, dirs[i])] \o stack
  /\ pc' = "walk"
  /\ UNCHANGED << self, fs, root, dirs, files, file_path, rel_path, file_content,
                  file_extension, parsed_file, tmpfiles, tmpcount, documents,
                  via, opened, listed, skipped, failed, error >>

\* the generator is exhausted: return documents
WalkReturn ==
  /\ pc = "walk" /\ stack = <<>>
  /\ pc' = "done"
  /\ UNCHANGED << self, fs, stack, root, dirs, files, file_path, rel_path,
                  file_content, file_extension, parsed_file, tmpfiles, tmpcount,
                  documents, via, opened, listed, skipped, failed, error >>


\* --------------------------------------------------------------- file loop
\* variant: the extension is compared without its leading dot
IsIgnoredFileNoDot(path, ignore_file_extensions) ==
  /\ ~IsNone(ignore_file_extensions)
  /\ LET ext == splitext(path)[2]
     IN  lower(SubSeq(ext, 2, Len(ext))) \in Val(ignore_file_extensions)

\* if self._ignore_file_extensions is not None:
\*     if get_file_extension(file_path) in self._ignore_file_extensions:
IsIgnoredFile(path, ignore_file_extensions) ==
  /\ ~IsNone(ignore_file_extensions)
  /\ get_file_extension(path) \in Val(ignore_file_extensions)

CurrentPath == join(root, Head(files))

\* `continue` / the end of the loop body: on to the next file
NextFile ==
  /\ files' = Tail(files)
  /\ pc' = "files"

\* the extension is in the ignore list: continue, before the file is opened
FileIgnored ==
  /\ pc = "files" /\ files # <<>>
  /\ IsIgnoredFile(CurrentPath, self.ignore_file_extensions)
  /\ file_path' = CurrentPath
  /\ rel_path' = relpath(CurrentPath, RepoPath)
  /\ NextFile
  /\ UNCHANGED << self, fs, stack, root, dirs, file_content, file_extension,
                  parsed_file, tmpfiles, tmpcount, documents, via, opened,
                  listed, skipped, failed, error >>

\* open(file_path, "rb") or f.read() raises OSError: nothing catches it
FileOpenError ==
  /\ pc = "files" /\ files # <<>>
  /\ ~IsIgnoredFile(CurrentPath, self.ignore_file_extensions)
  /\ file_path' = CurrentPath
  /\ rel_path' = relpath(CurrentPath, RepoPath)
  /\ pc' = "raised"
  /\ error' = Some("open")
  /\ UNCHANGED << self, fs, stack, root, dirs, files, file_content,
                  file_extension, parsed_file, tmpfiles, tmpcount, documents,
                  via, opened, listed, skipped, failed >>

\* file_content = f.read(), then the parser path if use_parser
FileRead ==
  /\ pc = "files" /\ files # <<>>
  /\ ~IsIgnoredFile(CurrentPath, self.ignore_file_extensions)
  /\ file_path' = CurrentPath
  /\ rel_path' = relpath(CurrentPath, RepoPath)
  /\ file_content' = ContentOf(CurrentPath)
  /\ opened' = opened \cup {CurrentPath}
  /\ pc' = IF self.use_parser THEN "parse" ELSE "decode"
  /\ UNCHANGED << self, fs, stack, root, dirs, files, file_extension,
                  parsed_file, tmpfiles, tmpcount, documents, via, listed,
                  skipped, failed, error >>

\* ---------------------------------------------------- _parse_supported_file
\* parser is None: return None, and load_data's else branch continues
ParseUnsupported ==
  /\ pc = "parse"
  /\ IsNone(Extractor(get_file_extension(rel_path)))
  /\ file_extension' = get_file_extension(rel_path)
  /\ NextFile
  /\ UNCHANGED << self, fs, stack, root, dirs, file_path, rel_path,
                  file_content, parsed_file, tmpfiles, tmpcount, documents, via,
                  opened, listed, skipped, failed, error >>

\* parser.init_parser() raises (a missing dependency): outside every try
ParseInitError ==
  /\ pc = "parse"
  /\ ~IsNone(Extractor(get_file_extension(rel_path)))
  /\ file_extension' = get_file_extension(rel_path)
  /\ pc' = "raised"
  /\ error' = Some("init_parser")
  /\ UNCHANGED << self, fs, stack, root, dirs, files, file_path, rel_path,
                  file_content, parsed_file, tmpfiles, tmpcount, documents, via,
                  opened, listed, skipped, failed >>

\* TemporaryDirectory + NamedTemporaryFile(delete=False); write, flush, close
ParseTmpFile ==
  /\ pc = "parse"
  /\ ~IsNone(Extractor(get_file_extension(rel_path)))
  /\ file_extension' = get_file_extension(rel_path)
  /\ tmpcount' = tmpcount + 1
  /\ tmpfiles' = tmpfiles \cup {[name |-> tmpcount + 1, content |-> file_content]}
  /\ parsed_file' = None
  /\ pc' = "parsing"
  /\ UNCHANGED << self, fs, stack, root, dirs, files, file_path, rel_path,
                  file_content, documents, via, opened, listed, skipped, failed,
                  error >>

\* variant: no except clause, the exception leaves load_data
ExceptHandlerMissing == [pc |-> "raised", error |-> Some("parse_file")]

\* except Exception: log, parsed_file = None; then the finally clause
ExceptHandler == [pc |-> "finally", error |-> None]

\* parsed_file = "\n\n".join(parser.parse_file(tmpfile))
ParseFileOk ==
  /\ pc = "parsing"
  /\ \E segs \in SegChoices : parsed_file' = Some(JoinSegments(segs))
  /\ pc' = "finally"
  /\ UNCHANGED << self, fs, stack, root, dirs, files, file_path, rel_path,
                  file_content, file_extension, tmpfiles, tmpcount, documents,
                  via, opened, listed, skipped, failed, error >>

\* parse_file gives an ImageParserOutput: ValueError, caught just below
ParseFileImage ==
  /\ pc = "parsing"
  /\ parsed_file' = None
  /\ failed' = failed \cup {<<rel_path, "ValueError">>}
  /\ pc' = ExceptHandler.pc
  /\ error' = ExceptHandler.error
  /\ UNCHANGED << self, fs, stack, root, dirs, files, file_path, rel_path,
                  file_content, file_extension, tmpfiles, tmpcount, documents,
                  via, opened, listed, skipped >>

\* parse_file raises
ParseFileRaise ==
  /\ pc = "parsing"
  /\ parsed_file' = None
  /\ failed' = failed \cup {<<rel_path, "Exception">>}
  /\ pc' = ExceptHandler.pc
  /\ error' = ExceptHandler.error
  /\ UNCHANGED << self, fs, stack, root, dirs, files, file_path, rel_path,
                  file_content, file_extension, tmpfiles, tmpcount, documents,
                  via, opened, listed, skipped >>

\* variant: the file is removed after the try block, not in a finally clause
RemoveTmpOnSuccess(tmps, parsed) == IF IsNone(parsed) THEN tmps ELSE {}

\* finally: os.remove(tmpfile.name); leaving the with blocks removes the
\* temporary directory
RemoveTmp(tmps, parsed) == {}

\* variant: a parsed file is done with, an unparsed one is decoded
AfterParseEitherOr(document) == IF ~IsNone(document) THEN "files" ELSE "decode"

\* load_data, after _parse_supported_file returned document:
\*   if document is not None: documents.append(document)   (then falls through)
\*   else: continue
AfterParse(document) == IF ~IsNone(document) THEN "decode" ELSE "files"

\* if parsed_file is None: return None
ParseReturnNone ==
  /\ pc = "finally"
  /\ IsNone(parsed_file)
  /\ tmpfiles' = RemoveTmp(tmpfiles, parsed_file)
  /\ pc' = AfterParse(None)
  /\ files' = IF pc' = "files" THEN Tail(files) ELSE files
  /\ UNCHANGED << self, fs, stack, root, dirs, file_path, rel_path,
                  file_content, file_extension, parsed_file, tmpcount, documents,
                  via, opened, listed, skipped, failed, error >>

\* return Document(text=parsed_file, doc_id=tree_sha, extra_info={...})
ParseReturnDocument ==
  /\ pc = "finally"
  /\ ~IsNone(parsed_file)
  /\ tmpfiles' = RemoveTmp(tmpfiles, parsed_file)
  /\ LET document == Some(Document(Val(parsed_file), None, rel_path, rel_path))
     IN  /\ documents' = Append(documents, Val(document))
         /\ via' = Append(via, "parse")
         /\ pc' = AfterParse(document)
  /\ files' = IF pc' = "files" THEN Tail(files) ELSE files
  /\ UNCHANGED << self, fs, stack, root, dirs, file_path, rel_path,
                  file_content, file_extension, parsed_file, tmpcount, opened,
                  listed, skipped, failed, error >>

\* ---------------------------------------------------------------- raw text
\* variant: the bytes are decoded as latin-1, one code point per byte
decodeLatin1(bytes) == Some(bytes)

\* file_content.decode("utf-8")
decode(bytes) == Utf8Decode(bytes)

\* except UnicodeDecodeError: continue
DecodeError ==
  /\ pc = "decode"
  /\ IsNone(decode(file_content))
  /\ NextFile
  /\ UNCHANGED << self, fs, stack, root, dirs, file_path, rel_path,
                  file_content, file_extension, parsed_file, tmpfiles, tmpcount,
                  documents, via, opened, listed, skipped, failed, error >>

\* documents.append(Document(text=decoded_text, doc_id=None, ...))
DecodeDocument ==
  /\ pc = "decode"
  /\ ~IsNone(decode(file_content))
  /\ LET decoded_text == Val(decode(file_content))
     IN  documents' =
           Append(documents, Document(decoded_text, None, rel_path, basename(file_path)))
  /\ via' = Append(via, "raw")
  /\ NextFile
  /\ UNCHANGED << self, fs, stack, root, dirs, file_path, rel_path,
                  file_content, file_extension, parsed_file, tmpfiles, tmpcount,
                  opened, listed, skipped, failed, error >>

Next ==
  \/ WalkSkip \/ WalkYield \/ WalkDescend \/ WalkReturn
  \/ FileIgnored \/ FileOpenError \/ FileRead
  \/ ParseUnsupported \/ ParseInitError \/ ParseTmpFile
  \/ ParseFileOk \/ ParseFileImage \/ ParseFileRaise
  \/ ParseReturnNone \/ ParseReturnDocument
  \/ DecodeError \/ DecodeDocument

Spec == Init /\ [][Next]_vars


\* -------------------------------------------------- get_file_extension alone
\* paths of up to MaxPathLen characters, each handed to get_file_extension
PathChars == {"a", "B", ".", "/"}
BoundedPaths == UNION {[1..n -> PathChars] : n \in 0..MaxPathLen}

InitExt ==
  /\ self = [use_parser |-> TRUE, ignore_file_extensions |-> None,
             ignore_directories |-> None]
  /\ fs = [dirs |-> {DirEntry(<<>>)}, files |-> {}]
  /\ pc = "ext"
  /\ stack = <<RepoPath>>
  /\ root = <<>> /\ dirs = <<>> /\ files = <<>>
  /\ file_path \in BoundedPaths
  /\ rel_path = <<>> /\ file_content = <<>>
  /\ file_extension = <<>> /\ parsed_file = None
  /\ tmpfiles = {} /\ tmpcount = 0
  /\ documents = <<>> /\ via = <<>>
  /\ opened = {} /\ listed = {} /\ skipped = {} /\ failed = {}
  /\ error = None

GetFileExtension ==
  /\ pc = "ext"
  /\ file_extension' = get_file_extension(file_path)
  /\ pc' = "ext_done"
  /\ UNCHANGED << self, fs, stack, root, dirs, files, file_path, rel_path,
                  file_content, parsed_file, tmpfiles, tmpcount, documents, via,
                  opened, listed, skipped, failed, error >>

NextExt == GetFileExtension

SpecExt == InitExt /\ [][NextExt]_vars


\* ------------------------------------------------------------------ claims
DocsOf(p) == {i \in 1..Len(documents) : documents[i].extra_info.file_path = p}
ParseDocsOf(p) == {i \in DocsOf(p) : via[i] = "parse"}
RawDocsOf(p) == {i \in DocsOf(p) : via[i] = "raw"}
FailedPaths == {x[1] : x \in failed}
Rel(f) == relpath(f.path, RepoPath)
IsPdf(f) == f.name = BPdf

\* the loop body for file f has run to its end
Finished(f) ==
  /\ f.path \in opened
  /\ file_path = f.path => pc \in {"files", "walk", "done"}

\* path lies below directory d (both as os.walk spells them)
IsUnder(path, d) ==
  /\ Len(path) > Len(d)
  /\ SubSeq(path, 1, Len(d)) = d
  /\ path[Len(d) + 1] = Sep

HasIgnoredExtension(f) ==
  /\ self.ignore_file_extensions # None
  /\ get_file_extension(f.path) \in self.ignore_file_extensions[1]

HasIgnoredDirectory(d) ==
  /\ self.ignore_directories # None
  /\ \E i \in 1..Len(d) : d[i] \in self.ignore_directories[1]

\* C1 (as claimed): under either setting of use_parser, a file that was read,
\* whose bytes are valid UTF-8 and whose extension has no extractor, has
\* exactly one Document, with the decoded bytes as text and the path relative
\* to the root as file_path.
C1_OneDocumentForPlainText ==
  \A f \in fs.files :
    ( /\ Finished(f)
      /\ Utf8Decode(f.content) # None
      /\ ~IsPdf(f) )
    => /\ Cardinality(DocsOf(Rel(f))) = 1
       /\ \A i \in DocsOf(Rel(f)) :
            documents[i].text = Utf8Decode(f.content)[1]

\* C2: no directory with an ignored name on its path is ever scanned, queued
\* for descent or left in dirs, and no file below one is opened or has a
\* Document.
C2_IgnoredDirectoriesPruned ==
  /\ \A d \in fs.dirs :
       HasIgnoredDirectory(d.parts) =>
         /\ d.path \notin (listed \cup skipped)
         /\ \A i \in 1..Len(stack) : stack[i] # d.path
  /\ \A f \in fs.files :
       HasIgnoredDirectory(f.parts) =>
         /\ f.path \notin opened
         /\ file_path # f.path
         /\ DocsOf(Rel(f)) = {}
  /\ (pc \notin {"walk", "ext"} /\ self.ignore_directories # None) =>
       \A i \in 1..Len(dirs) : dirs[i] \notin self.ignore_directories[1]

\* a file two levels down, below an ignored directory inside a scanned one,
\* at the end of a load
C2_Witness ==
  /\ pc = "done"
  /\ \E f \in fs.files :
       /\ Len(f.parts) = 2
       /\ HasIgnoredDirectory(f.parts)
       /\ ~HasIgnoredDirectory(Parent(f.parts))
       /\ DirStr(Parent(f.parts)) \in listed

C4_NonEmptyText ==
  \A i \in 1..Len(documents) : documents[i].text # <<>>

\* C4 (amended): a raw Document's text is the UTF-8 decoding of its file's
\* bytes and an extraction Document's text is the join of the extractor's
\* segments, either of which may be empty; a file whose bytes do not decode
\* has no raw Document, and a file whose parse failed has no Document at all.
C4_TextIsDecodedOrExtracted ==
  /\ \A f \in fs.files :
       /\ \A i \in RawDocsOf(Rel(f)) :
            Utf8Decode(f.content) = <<documents[i].text>>
       /\ \A i \in ParseDocsOf(Rel(f)) :
            \E segs \in SegChoices : documents[i].text = JoinSegments(segs)
       /\ Utf8Decode(f.content) = None => RawDocsOf(Rel(f)) = {}
       /\ Rel(f) \in FailedPaths => DocsOf(Rel(f)) = {}
  /\ \A i \in 1..Len(documents) :
       \E f \in fs.files : Rel(f) = documents[i].extra_info.file_path

\* a returned list with the empty raw Document of a zero-length file
C4_Witness ==
  /\ pc = "done"
  /\ \E i \in 1..Len(documents) :
       /\ via[i] = "raw" /\ documents[i].text = <<>>
       /\ ContentOf(join(RepoPath, documents[i].extra_info.file_path)) = <<>>

\* every file of a scanned directory that is not filtered out has been read
AllListedFilesRead ==
  \A f \in fs.files :
    (f.dir \in listed /\ ~HasIgnoredExtension(f)) => f.path \in opened

\* a file that was read and whose parse did not fail has its Document
DocumentsKept ==
  \A f \in fs.files :
    Finished(f) =>
      /\ ( /\ self.use_parser
           /\ IsPdf(f)
           /\ Rel(f) \notin FailedPaths ) => ParseDocsOf(Rel(f)) # {}
      /\ (~self.use_parser /\ Utf8Decode(f.content) # None) =>
           RawDocsOf(Rel(f)) # {}

\* C5: when parse_file raises or gives an image, load_data does not end with
\* that exception: the file gets no extraction Document, the loop goes on to
\* the next file (never to the raw decode of this one), the Documents of the
\* files before it stay in the list, and a load that returns has read every
\* remaining file.
C5_ParseFailureIsolated ==
  /\ pc = "raised" => error \in {Some("open"), Some("init_parser")}
  /\ \A p \in FailedPaths : ParseDocsOf(p) = {}
  /\ rel_path \in FailedPaths => pc \in {"finally", "files", "walk", "done"}
  /\ DocumentsKept
  /\ pc = "done" => AllListedFilesRead

\* a load that returned with the Documents of a file in a subdirectory, read
\* after the parse of a file in the root had failed
C5_Witness ==
  /\ pc = "done"
  /\ \E x \in failed : x[1] = BPdf
  /\ \E i \in 1..Len(documents) :
       documents[i].extra_info.file_path = join(SrcDir, BPdf)

C7_OnlyTraversalErrors ==
  pc = "raised" => error \notin {Some("open"), Some("init_parser")}

\* C8: a file has at most one Document from each path; with use_parser, a
\* file whose extractor is registered and did not fail and whose bytes are
\* valid UTF-8 has exactly two, the extraction one right before the raw one.
C8_TwoDocumentsWhenBothSucceed ==
  \A f \in fs.files :
    LET p == Rel(f)
    IN  /\ Cardinality(ParseDocsOf(p)) <= 1
        /\ Cardinality(RawDocsOf(p)) <= 1
        /\ ( /\ Finished(f)
             /\ self.use_parser
             /\ IsPdf(f)
             /\ p \notin FailedPaths
             /\ Utf8Decode(f.content) # None )
           => /\ Cardinality(DocsOf(p)) = 2
              /\ \E i \in ParseDocsOf(p) : i + 1 \in RawDocsOf(p)

\* a returned list with an extraction Document right before the raw Document
\* of the same file
C8_Witness ==
  /\ pc = "done"
  /\ \E i \in 1..(Len(documents) - 1) :
       /\ via[i] = "parse" /\ via[i + 1] = "raw"
       /\ documents[i].extra_info.file_path = documents[i + 1].extra_info.file_path

\* C9: a temporary file exists only while _parse_supported_file is between
\* creating it and its finally clause; there it is the single one, under a
\* name not used before, holding exactly the file's bytes.
C9_TemporaryFileScoped ==
  /\ Cardinality(tmpfiles) <= 1
  /\ pc \notin {"parsing", "finally"} => tmpfiles = {}
  /\ pc \in {"parsing", "finally"} =>
       tmpfiles = {[name |-> tmpcount, content |-> ContentOf(file_path)]}

\* back in the file loop after two extractions, one failed and one not
C9_Witness ==
  /\ pc = "done"
  /\ tmpcount >= 2
  /\ failed # {}
  /\ \E i \in 1..Len(documents) : via[i] = "parse"

\* lower-case extension with its dot, empty when the name has none
SpecExtension(p) == lower(splitext(p)[2])

\* C10 (as claimed): get_file_extension gives the lower-case extension with
\* its leading dot, and the empty string when the file name has none.
C10_ExtensionOrEmpty ==
  pc = "ext_done" => file_extension = SpecExtension(file_path)

====
